---- MODULE Spec2Model ----
(***************************************************************************)
(* A model of the ravarch/agent worker: the SuperAgent session actor       *)
(* (onConnect, onMessage, broadcastResult), the capability registry        *)
(* (getTools) and the ResearchWorkflow run.                                *)
(*                                                                         *)
(* A session is one Durable Object.  Its handlers run on one thread but    *)
(* are async functions: every `await` is a point where another event of    *)
(* the same object (a second prompt, a connect, a close, a workflow RPC)   *)
(* may be delivered.  Each action below is the code between two awaits.    *)
(***************************************************************************)
EXTENDS Integers, Sequences, FiniteSets, TLC

\* ---------------------------------------------------------------- bounds
MaxTurns == 2
MaxDeltas == 1
MaxToolReq == 2
MaxRuns == 1
MaxCrashes == 1
RetryLimit == 1
LoopDeltas == 2
MaxLen == 10
MaxSize == 4
MaxUploads == 2

\* ------------------------------------------------------ program constants
\* maxSteps: 5 in the streamText call
MaxSteps == 5
\* Math.min(chunks.length, 50)
MaxChunks == 50

Sessions == {"s1", "s2"}
Conns == {"c1", "c2", "c3"}
\* the session a connection's URL routes to
SessionOf(c) == IF c = "c3" THEN "s2" ELSE "s1"

Tools == {"web_search", "read_file", "start_deep_research", "generate_image"}
LoopTools == {"web_search", "read_file"}
ConcTools == {"web_search"}
\* the connections that are closed in the runs explored
Closing == {"c1"}
\* object names: <<name, a, b>>; generated names carry what made them distinct
DocTxt == <<"doc.txt", 0, 0>>
ScanPdf == <<"scan.pdf", 0, 0>>
NotesTxt == <<"notes.txt", 0, 0>>
\* the names the model asks read_file for; doc.txt is not in the store
FileNames == {DocTxt, ScanPdf, NotesTxt}
StepNames == <<"plan-research", "scrape-convert", "synthesize-report", "save-and-notify">>
\* const chunkSize = 800; const overlap = 100
ChunkSize == 800
Overlap == 100
\* the window sizes and overlaps the chunking loop is run with: those of the
\* handler, and small ones with 0 <= overlap < size
ChunkParams ==
    {<<ChunkSize, Overlap>>} \cup
    {p \in (1..MaxSize) \X (0..(MaxSize - 1)) : p[2] < p[1]}
\* the files that are uploaded and the markdown their conversion gives: no
\* text, a few chunks, and one chunk more than the cap
UploadNames == {DocTxt, NotesTxt}
UploadLens == {0, 2, 3, MaxChunks + 1}
\* the window the uploads are chunked with: every offset starts a chunk
UploadSize == 2
UploadOverlap == 1
\* sizes and overlaps that are not 0 <= overlap < size
BadParams ==
    {p \in (1..MaxSize) \X ((0 - 1)..(MaxSize + 1)) : ~(0 <= p[2] /\ p[2] < p[1])}
\* markdownContent: the first n characters of abcdefghijabc...
Alphabet == <<"a", "b", "c", "d", "e", "f", "g", "h", "i", "j">>
TextOfLen(n) == [k \in 1..n |-> Alphabet[((k - 1) % Len(Alphabet)) + 1]]
Texts == {TextOfLen(n) : n \in 0..MaxLen}
\* the URLs a plan-research body may come back with
Urls == {"u1", "u2"}
OneUrl == {"u1"}

TurnIds == 1..MaxTurns
RunIds == 1..MaxRuns

VARIABLES
    messages,    \* session -> this.messages
    connState,   \* connection -> "new" | "open" | "closed"
    inbox,       \* connection -> the events sent to it, in order
    turn,        \* turn id -> one invocation of onMessage
    nturns,      \* onMessage invocations so far
    run,         \* run id -> one ResearchWorkflow instance
    nruns,       \* workflow instances created so far
    bucket,      \* FILES_BUCKET: the names of the stored objects
    delivered,   \* history: the broadcastResult calls made so far
    upload,      \* one request to /api/upload: its text and its chunking loop
    vectorDb     \* VECTOR_DB: the entries of the vector index

vars == <<messages, connState, inbox, turn, nturns, run, nruns, bucket, delivered, upload,
          vectorDb>>

\* ---------------------------------------------------------------- events
TurnEvent(type, t, tool, frag) == [type |-> type, turn |-> t, run |-> 0, tool |-> tool, frag |-> frag]
RunEvent(type, r, n) == [type |-> type, turn |-> 0, run |-> r, tool |-> "", frag |-> n]
Greeting == [type |-> "system", turn |-> 0, run |-> 0, tool |-> "", frag |-> 0]

\* faulty variant: a frame goes to every open connection of the session
SendToSession(ib, c, e) ==
    [x \in Conns |->
        IF SessionOf(x) = SessionOf(c) /\ connState[x] = "open"
        THEN Append(ib[x], e) ELSE ib[x]]

\* connection.send: a frame sent on a closed socket is discarded
Send(ib, c, e) == IF connState[c] = "open" THEN [ib EXCEPT ![c] = Append(@, e)] ELSE ib

\* faulty variant: every open connection of the worker, whatever its session
GetConnectionsAll(s) == {c \in Conns : connState[c] = "open"}

\* this.getConnections() of session s
GetConnections(s) == {c \in Conns : SessionOf(c) = s /\ connState[c] = "open"}

\* what a capability handler hands back: a text, or a rejection
Text(x) == [kind |-> "text", text |-> x, run |-> 0]
Ack(r) == [kind |-> "text", text |-> "Started Deep Research Task", run |-> r]
Throw == [kind |-> "throw", text |-> "", run |-> 0]
NoResult == [kind |-> "", text |-> "", run |-> 0]

NoTurn ==
    [pc |-> "none", conn |-> "c1", steps |-> 0, deltas |-> 0, calls |-> 0, full |-> <<>>,
     tool |-> "", statusSent |-> FALSE, toolDone |-> FALSE, result |-> NoResult,
     outcome |-> "", input |-> <<>>, base |-> 0, raised |-> "", busy |-> 0,
     lookup |-> ""]

\* a local of run() that no step.do has assigned yet
Undefined == "undefined"
\* targetUrl, researchMaterial, report, and the unused result of save-and-notify
NoLocals == <<Undefined, Undefined, Undefined, Undefined>>

\* no upload request has been received
\* history: the operation of the upload handler that threw, and for an
\* embedding the index of its chunk
NoFailure == [op |-> "", k |-> 0]
NoResponse == [status |-> 0, success |-> FALSE, chunksIndexed |-> 0]
NoUpload ==
    [pc |-> "idle", text |-> <<>>, size |-> ChunkSize, overlap |-> Overlap,
     i |-> 0, chunks |-> <<>>, starts |-> <<>>,
     gen |-> 0, name |-> <<>>, doc |-> <<>>, e |-> 0, vectors |-> <<>>,
     failedAt |-> NoFailure, batch |-> <<>>, response |-> NoResponse, past |-> <<>>]

NoRun ==
    [status |-> "none", agentId |-> <<>>, connectionId |-> "", origin |-> "",
     log |-> <<>>, pos |-> 1, phase |-> "idle", attempts |-> 0, crashes |-> 0,
     entryLog |-> {}, bodies |-> <<0, 0, 0, 0>>, puts |-> 0, sends |-> 0,
     results |-> <<>>, mem |-> NoLocals, value |-> Undefined]

Init ==
    /\ messages = [s \in Sessions |-> <<>>]
    /\ connState = [c \in Conns |-> "new"]
    /\ inbox = [c \in Conns |-> <<>>]
    /\ turn = [t \in TurnIds |-> NoTurn]
    /\ nturns = 0
    /\ run = [r \in RunIds |-> NoRun]
    /\ nruns = 0
    /\ bucket = {ScanPdf, NotesTxt}
    /\ delivered = {}
    /\ upload = NoUpload
    /\ vectorDb = {}

\* ----------------------------------------------------------- connections
\* faulty variant: a new connection is also sent a notification its session missed
OnConnectReplay(s) ==
    IF \E d \in delivered : run[d.run].origin = s
    THEN LET d == CHOOSE d \in delivered : run[d.run].origin = s
         IN  <<Greeting, RunEvent("text", d.run, d.n), RunEvent("stop", d.run, d.n)>>
    ELSE <<Greeting>>

\* onConnect: the greeting is the only thing a new connection is sent
OnConnectFrames(s) == <<Greeting>>

OnConnect(c) ==
    /\ connState[c] = "new"
    /\ connState' = [connState EXCEPT ![c] = "open"]
    /\ inbox' = [inbox EXCEPT ![c] = @ \o OnConnectFrames(SessionOf(c))]
    /\ UNCHANGED <<messages, turn, nturns, run, nruns, bucket, delivered, upload, vectorDb>>

OnClose(c) ==
    /\ connState[c] = "open"
    /\ connState' = [connState EXCEPT ![c] = "closed"]
    /\ UNCHANGED <<messages, inbox, turn, nturns, run, nruns, bucket, delivered, upload, vectorDb>>

\* ------------------------------------------------------------ onMessage
UserMessage(t) == [role |-> "user", turn |-> t, content |-> <<>>]
\* faulty variant: only the fragments of the pass that ended the stream are kept
AssistantMessageLastPass(t, full) ==
    [role |-> "assistant", turn |-> t,
     content |-> SelectSeq(full, LAMBDA p : p = turn[t].steps)]
AssistantMessage(t, full) == [role |-> "assistant", turn |-> t, content |-> full]

\* faulty variant: every turn works on the history of the first session
TurnSessionShared(t) == "s1"

\* the object whose onMessage runs turn t: its messages, its tools
TurnSession(t) == SessionOf(turn[t].conn)
Active(t) == turn[t].pc \notin {"none", "done"}

\* the invocations of onMessage of session s that have not returned
ActiveTurns(s) == {t \in TurnIds : Active(t) /\ TurnSession(t) = s}

\* faulty variant: the catch block also commits the partial reply
CaughtCommits(t, why) ==
    /\ inbox' = Send(inbox, turn[t].conn, TurnEvent("error", t, "", 0))
    /\ turn' = [turn EXCEPT ![t].pc = "done", ![t].outcome = "error", ![t].raised = why]
    /\ messages' = [messages EXCEPT ![TurnSession(t)] =
                       Append(@, AssistantMessage(t, turn[t].full))]

\* faulty variant: the catch block takes the prompt back out of the history
CaughtRollsBack(t, why) ==
    /\ inbox' = Send(inbox, turn[t].conn, TurnEvent("error", t, "", 0))
    /\ turn' = [turn EXCEPT ![t].pc = "done", ![t].outcome = "error", ![t].raised = why]
    /\ messages' = [messages EXCEPT ![TurnSession(t)] = SubSeq(@, 1, Len(@) - 1)]

\* the code of the catch block: one error event, nothing pushed
Caught(t, why) ==
    /\ inbox' = Send(inbox, turn[t].conn, TurnEvent("error", t, "", 0))
    /\ turn' = [turn EXCEPT ![t].pc = "done", ![t].outcome = "error", ![t].raised = why]
    /\ UNCHANGED messages

\* an exception outside the try block: onMessage rejects, nothing is sent
Escaped(t, why) ==
    /\ turn' = [turn EXCEPT ![t].pc = "done", ![t].outcome = "aborted", ![t].raised = why]
    /\ UNCHANGED <<messages, inbox>>

\* a prompt arrives: parse it and push the user message, up to the first await
OnMessage(c, maxTurns) ==
    /\ connState[c] = "open"
    /\ nturns < maxTurns
    /\ nturns' = nturns + 1
    /\ messages' = [messages EXCEPT ![SessionOf(c)] = Append(@, UserMessage(nturns + 1))]
    /\ turn' = [turn EXCEPT ![nturns + 1] =
                   [NoTurn EXCEPT !.pc = "embed", !.conn = c,
                                  !.base = Len(messages[SessionOf(c)]),
                                  !.busy = Cardinality(ActiveTurns(SessionOf(c)))]]
    /\ UNCHANGED <<connState, inbox, run, nruns, bucket, delivered, upload, vectorDb>>

\* await this.env.AI.run(bge-base ...): the embedding of the prompt
Embed(t) ==
    /\ turn[t].pc = "embed"
    /\ \E ok \in BOOLEAN :
          IF ok THEN /\ turn' = [turn EXCEPT ![t].pc = "query"]
                     /\ UNCHANGED <<messages, inbox>>
                ELSE Escaped(t, "embed")
    /\ UNCHANGED <<connState, nturns, run, nruns, bucket, delivered, upload, vectorDb>>

\* await this.env.VECTOR_DB.query(vectors, { topK: 3 })
Query(t) ==
    /\ turn[t].pc = "query"
    /\ \E ok \in BOOLEAN :
          IF ok THEN /\ turn' = [turn EXCEPT ![t].pc = "invoke"]
                     /\ UNCHANGED <<messages, inbox>>
                ELSE Escaped(t, "query")
    /\ UNCHANGED <<connState, nturns, run, nruns, bucket, delivered, upload, vectorDb>>

\* faulty variant: the prompts of turns that ended with an error are left out
\* of the model input
InvokeSkipsUnanswered(t) ==
    /\ turn[t].pc = "invoke"
    /\ \E ok \in BOOLEAN :
          IF ok THEN /\ turn' = [turn EXCEPT ![t].pc = "stream", ![t].steps = 1,
                                             ![t].input =
                                                SelectSeq(messages[TurnSession(t)],
                                                    LAMBDA m : turn[m.turn].outcome # "error")]
                     /\ UNCHANGED <<messages, inbox>>
                ELSE Caught(t, "invoke")
    /\ UNCHANGED <<connState, nturns, run, nruns, bucket, delivered, upload, vectorDb>>

\* await streamText({..., messages: this.messages.map(...)}); fullResponse = ""
Invoke(t) ==
    /\ turn[t].pc = "invoke"
    /\ \E ok \in BOOLEAN :
          IF ok THEN /\ turn' = [turn EXCEPT ![t].pc = "stream", ![t].steps = 1,
                                             ![t].input = messages[TurnSession(t)]]
                     /\ UNCHANGED <<messages, inbox>>
                ELSE Caught(t, "invoke")
    /\ UNCHANGED <<connState, nturns, run, nruns, bucket, delivered, upload, vectorDb>>

\* faulty variant: the fragment is sent but not added to fullResponse
TextDeltaUnkept(t, budget) ==
    /\ turn[t].pc = "stream"
    /\ turn[t].deltas < budget
    /\ turn' = [turn EXCEPT ![t].deltas = @ + 1]
    /\ inbox' = Send(inbox, turn[t].conn, TurnEvent("text", t, "", turn[t].steps))
    /\ UNCHANGED <<messages, connState, nturns, run, nruns, bucket, delivered, upload, vectorDb>>

\* a text-delta chunk: fullResponse += text; send it
TextDelta(t, budget) ==
    /\ turn[t].pc = "stream"
    /\ turn[t].deltas < budget
    /\ turn' = [turn EXCEPT ![t].deltas = @ + 1, ![t].full = Append(@, turn[t].steps)]
    /\ inbox' = Send(inbox, turn[t].conn, TurnEvent("text", t, "", turn[t].steps))
    /\ UNCHANGED <<messages, connState, nturns, run, nruns, bucket, delivered, upload, vectorDb>>

\* the stream throws while it is being read
StreamRaise(t) ==
    /\ turn[t].pc = "stream"
    /\ Caught(t, "stream")
    /\ UNCHANGED <<connState, nturns, run, nruns, bucket, delivered, upload, vectorDb>>

\* faulty variant: stop is sent but the reply is not pushed
FinishNoPush(t) ==
    /\ turn[t].pc \in {"stream", "closing"}
    /\ inbox' = Send(inbox, turn[t].conn, TurnEvent("stop", t, "", 0))
    /\ turn' = [turn EXCEPT ![t].pc = "done", ![t].outcome = "stop"]
    /\ UNCHANGED <<messages, connState, nturns, run, nruns, bucket, delivered, upload, vectorDb>>

\* the stream ends: push the assistant message, send stop
Finish(t) ==
    /\ turn[t].pc \in {"stream", "closing"}
    /\ messages' = [messages EXCEPT ![TurnSession(t)] =
                       Append(@, AssistantMessage(t, turn[t].full))]
    /\ inbox' = Send(inbox, turn[t].conn, TurnEvent("stop", t, "", 0))
    /\ turn' = [turn EXCEPT ![t].pc = "done", ![t].outcome = "stop"]
    /\ UNCHANGED <<connState, nturns, run, nruns, bucket, delivered, upload, vectorDb>>

\* ------------------------------------------------------------- getTools
\* filename.match(/\.(pdf|png|jpg|jpeg|webp)$/i) || contentType image/pdf
IsBinary(name) == name[1] \in {"scan.pdf", "img"}

\* faulty variant: the browser calls are outside any try
WebSearchUnguarded(ok) == IF ok THEN Text("Results") ELSE Throw

\* web_search: everything is inside try/catch
WebSearch(ok) == IF ok THEN Text("Results") ELSE Text("Search Error")

\* await env.FILES_BUCKET.get(filename): the call rejects, or it resolves to the
\* object or to null
Lookup(name, store, getOk) ==
    IF ~getOk THEN "failed" ELSE IF name \in store THEN "present" ELSE "absent"

\* faulty variant: a missing object is an exception
ReadFileAbsentThrows(name, store, getOk, convOk) ==
    IF ~getOk \/ name \notin store THEN Throw
    ELSE IF IsBinary(name)
         THEN (IF convOk THEN Text("Converted") ELSE Text("Error converting"))
         ELSE Text("Content")

\* read_file: FILES_BUCKET.get is outside any try; toMarkdown is inside one
ReadFile(name, store, getOk, convOk) ==
    IF ~getOk THEN Throw
    ELSE IF name \notin store THEN Text("not found")
    ELSE IF IsBinary(name)
         THEN (IF convOk THEN Text("Converted") ELSE Text("Error converting"))
         ELSE Text("Content")

\* faulty variant: the acknowledgement does not name the run
StartDeepResearchNoId(createOk, r) == IF createOk THEN Ack(0) ELSE Throw

\* start_deep_research: RESEARCH_WORKFLOW.create is outside any try
StartDeepResearch(createOk, r) == IF createOk THEN Ack(r) ELSE Throw

\* generate_image: everything is inside try/catch
GenerateImage(ok) == IF ok THEN Text("Generated") ELSE Text("Generation failed")

Execute(tool, name, store, ok, convOk, r) ==
    CASE tool = "web_search" -> WebSearch(ok)
      [] tool = "read_file" -> ReadFile(name, store, ok, convOk)
      [] tool = "start_deep_research" -> StartDeepResearch(ok, r)
      [] tool = "generate_image" -> GenerateImage(ok)

\* DurableObjectId.toString() and namespace.idFromString()
IdToString(s) == <<"hex", s>>
IdFromString(x) == x[2]

\* agent.state?.id?.toString() || agent.id?.toString(): no state is ever set
AgentIdOf(s) == IdToString(s)

\* tool-call requests of the model that are not yet executed
PendingStarts ==
    Cardinality({t \in TurnIds : turn[t].pc = "tool" /\ ~turn[t].toolDone
                                 /\ turn[t].tool = "start_deep_research"})

\* the model ends a pass with a tool call: the SDK queues the tool-call chunk
\* and starts the handler
ToolCall(t, tool, budget) ==
    /\ turn[t].pc = "stream"
    /\ turn[t].calls < budget
    /\ tool = "start_deep_research" => nruns + PendingStarts < MaxRuns
    /\ turn' = [turn EXCEPT ![t].pc = "tool", ![t].tool = tool, ![t].calls = @ + 1,
                            ![t].statusSent = FALSE, ![t].toolDone = FALSE,
                            ![t].result = NoResult, ![t].lookup = ""]
    /\ UNCHANGED <<messages, connState, inbox, nturns, run, nruns, bucket, delivered, upload, vectorDb>>

\* the loop reads the tool-call chunk and sends the status event
EmitStatus(t) ==
    /\ turn[t].pc = "tool"
    /\ ~turn[t].statusSent
    /\ inbox' = Send(inbox, turn[t].conn, TurnEvent("status", t, turn[t].tool, 0))
    /\ turn' = [turn EXCEPT ![t].statusSent = TRUE]
    /\ UNCHANGED <<messages, connState, nturns, run, nruns, bucket, delivered, upload, vectorDb>>

\* the handler of the requested capability runs
ToolExec(t) ==
    /\ turn[t].pc = "tool"
    /\ ~turn[t].toolDone
    /\ \E ok \in BOOLEAN, convOk \in BOOLEAN, name \in FileNames :
          LET tool == turn[t].tool
              res == Execute(tool, name, bucket, ok, convOk, nruns + 1)
          IN  /\ turn' = [turn EXCEPT ![t].toolDone = TRUE, ![t].result = res,
                                      ![t].lookup = IF tool = "read_file"
                                                    THEN Lookup(name, bucket, ok) ELSE ""]
              /\ IF tool = "start_deep_research" /\ ok
                 THEN /\ nruns' = nruns + 1
                      /\ run' = [run EXCEPT ![nruns + 1] =
                                    [NoRun EXCEPT !.status = "running",
                                                  !.agentId = AgentIdOf(TurnSession(t)),
                                                  !.connectionId = turn[t].conn,
                                                  !.origin = TurnSession(t)]]
                 ELSE UNCHANGED <<run, nruns>>
              /\ bucket' = IF tool = "generate_image" /\ ok
                           THEN bucket \cup {<<"img", t, turn[t].steps>>}
                           ELSE bucket
    /\ UNCHANGED <<messages, connState, inbox, nturns, delivered, upload, vectorDb>>

\* what the SDK does with a handler that rejected: it depends on the build
SdkOnThrow == {"raise", "end", "feed"}

\* faulty variant: no bound on the passes
MayContinueAlways(steps) == TRUE

\* maxSteps: another pass only while fewer than maxSteps were made
MayContinue(steps) == steps < MaxSteps

\* the tool result is in: the next pass, or the end of the stream
NextPass(t) ==
    /\ turn[t].pc = "tool"
    /\ turn[t].statusSent
    /\ turn[t].toolDone
    /\ \E sdk \in SdkOnThrow :
          IF turn[t].result.kind = "throw" /\ sdk = "raise"
          THEN Caught(t, "tool")
          ELSE /\ turn' = [turn EXCEPT
                             ![t].pc = IF (turn[t].result.kind = "throw" /\ sdk = "end")
                                          \/ ~MayContinue(turn[t].steps)
                                       THEN "closing" ELSE "stream",
                             ![t].steps = IF (turn[t].result.kind = "throw" /\ sdk = "end")
                                             \/ ~MayContinue(turn[t].steps)
                                          THEN @ ELSE @ + 1,
                             ![t].tool = "", ![t].result = NoResult, ![t].lookup = "",
                             ![t].statusSent = FALSE, ![t].toolDone = FALSE]
               /\ UNCHANGED <<messages, inbox>>
    /\ UNCHANGED <<connState, nturns, run, nruns, bucket, delivered, upload, vectorDb>>

\* ----------------------------------------------------- ResearchWorkflow
NSteps == Len(StepNames)
Logged(r) == {run[r].log[i] : i \in 1..Len(run[r].log)}
Running(r) == run[r].status = "running"

\* faulty variant: the run only advances while the connection that asked is open
AtStepAttached(r) ==
    /\ Running(r)
    /\ run[r].pos <= NSteps
    /\ connState[run[r].connectionId] = "open"

AtStep(r) == Running(r) /\ run[r].pos <= NSteps
StepName(r) == StepNames[run[r].pos]

\* faulty variant: the step log is never consulted
StepNeverCached(r, name) == FALSE

\* faulty variant: only the newest record of the step log is consulted
StepCachedLast(r, name) ==
    Len(run[r].log) > 0 /\ run[r].log[Len(run[r].log)] = name

\* step.do(name, body): a name with a record in the step log is not run again
StepCached(r, name) == name \in Logged(r)

\* faulty variant: a failed attempt sends the run back to its first step
FailedRewinds(r) ==
    IF run[r].attempts < RetryLimit
    THEN [run EXCEPT ![r].attempts = @ + 1, ![r].phase = "idle", ![r].pos = 1]
    ELSE [run EXCEPT ![r].status = "failed", ![r].phase = "idle"]

\* a failed attempt of the current step: retried, or the run fails
Failed(r) ==
    IF run[r].attempts < RetryLimit
    THEN [run EXCEPT ![r].attempts = @ + 1, ![r].phase = "idle"]
    ELSE [run EXCEPT ![r].status = "failed", ![r].phase = "idle"]

CountBody(r) == [run[r].bodies EXCEPT ![run[r].pos] = @ + 1]

\* faulty variant: a logged step hands back nothing
StoredResultLost(r, name) == Undefined

\* the result the engine stored with the record of a logged step
StoredResult(r, name) ==
    run[r].results[CHOOSE i \in 1..Len(run[r].log) : run[r].log[i] = name]

\* step.do on a logged step: its stored result is returned
StepSkip(r) ==
    /\ AtStep(r)
    /\ run[r].phase = "idle"
    /\ StepCached(r, StepName(r))
    /\ run' = [run EXCEPT ![r].mem[run[r].pos] = StoredResult(r, StepName(r)),
                          ![r].pos = @ + 1]
    /\ UNCHANGED <<messages, connState, inbox, turn, nturns, nruns, bucket, delivered, upload, vectorDb>>

\* the planner model's answer: a URL, or the search URL put in place of a non-URL
Answers(r, urls) == IF run[r].pos = 1 THEN urls ELSE {Undefined}

\* what the body of the current step returns, from the locals it reads
BodyValue(r, url) ==
    CASE run[r].pos = 1 -> url
      [] run[r].pos = 2 -> <<"md", run[r].mem[1]>>
      [] run[r].pos = 3 -> <<"report", run[r].mem[2]>>
      [] OTHER -> Undefined

\* the body of plan-research, scrape-convert or synthesize-report
StepBody(r, urls) ==
    /\ AtStep(r)
    /\ run[r].pos < NSteps
    /\ run[r].phase = "idle"
    /\ ~StepCached(r, StepName(r))
    /\ \E ok \in BOOLEAN, url \in Answers(r, urls) :
          run' = IF ok THEN [run EXCEPT ![r].phase = "executed", ![r].bodies = CountBody(r),
                                        ![r].value = BodyValue(r, url)]
                       ELSE [Failed(r) EXCEPT ![r].bodies = CountBody(r)]
    /\ UNCHANGED <<messages, connState, inbox, turn, nturns, nruns, bucket, delivered, upload, vectorDb>>

\* `Report-${timestamp}.md`: every execution of the body reads the clock anew
ReportName(r, n) == <<"Report", r, n>>

\* save-and-notify, first half: FILES_BUCKET.put(filename, report)
SaveReport(r) ==
    /\ AtStep(r)
    /\ run[r].pos = NSteps
    /\ run[r].phase = "idle"
    /\ ~StepCached(r, StepName(r))
    /\ \E ok \in BOOLEAN :
          IF ok
          THEN /\ run' = [run EXCEPT ![r].phase = "saved", ![r].bodies = CountBody(r),
                                     ![r].puts = @ + 1]
               /\ bucket' = bucket \cup {ReportName(r, run[r].puts + 1)}
          ELSE /\ run' = [Failed(r) EXCEPT ![r].bodies = CountBody(r)]
               /\ UNCHANGED bucket
    /\ UNCHANGED <<messages, connState, inbox, turn, nturns, nruns, delivered, upload, vectorDb>>

\* broadcastResult(content): text then stop to each of this.getConnections()
BroadcastResult(s, r, n) ==
    [c \in Conns |->
        IF c \in GetConnections(s)
        THEN inbox[c] \o <<RunEvent("text", r, n), RunEvent("stop", r, n)>>
        ELSE inbox[c]]

\* faulty variant: broadcastResult also pushes the notification to the history
NotifyRecorded(r) ==
    /\ AtStep(r)
    /\ run[r].phase = "saved"
    /\ \E ok \in BOOLEAN :
          IF ok
          THEN /\ inbox' = BroadcastResult(IdFromString(run[r].agentId), r, run[r].sends + 1)
               /\ messages' = [messages EXCEPT ![IdFromString(run[r].agentId)] =
                                  Append(@, [role |-> "assistant", turn |-> 0,
                                             content |-> <<r>>])]
               /\ run' = [run EXCEPT ![r].phase = "executed", ![r].sends = @ + 1,
                                     ![r].value = Undefined]
               /\ delivered' = delivered \cup
                     {[run |-> r, n |-> run[r].sends + 1,
                       open |-> {c \in Conns : connState[c] = "open"},
                       source |-> run[r].mem[1], summary |-> run[r].mem[3],
                       seen |-> Len(messages[IdFromString(run[r].agentId)])]}
          ELSE /\ run' = Failed(r)
               /\ UNCHANGED <<inbox, delivered, messages>>
    /\ UNCHANGED <<connState, turn, nturns, nruns, bucket, upload, vectorDb>>

\* save-and-notify, second half: the stub of idFromString(agentId) is called
Notify(r) ==
    /\ AtStep(r)
    /\ run[r].phase = "saved"
    /\ \E ok \in BOOLEAN :
          IF ok
          THEN /\ inbox' = BroadcastResult(IdFromString(run[r].agentId), r, run[r].sends + 1)
               /\ run' = [run EXCEPT ![r].phase = "executed", ![r].sends = @ + 1,
                                     ![r].value = Undefined]
               /\ delivered' = delivered \cup
                     {[run |-> r, n |-> run[r].sends + 1,
                       open |-> {c \in Conns : connState[c] = "open"},
                       source |-> run[r].mem[1], summary |-> run[r].mem[3],
                       seen |-> Len(messages[IdFromString(run[r].agentId)])]}
          ELSE /\ run' = Failed(r)
               /\ UNCHANGED <<inbox, delivered>>
    /\ UNCHANGED <<messages, connState, turn, nturns, nruns, bucket, upload, vectorDb>>

\* the engine records the result of the step that just ran
StepCommit(r) ==
    /\ AtStep(r)
    /\ run[r].phase = "executed"
    /\ run' = [run EXCEPT ![r].log = Append(@, StepName(r)),
                          ![r].results = Append(@, run[r].value),
                          ![r].mem[run[r].pos] = run[r].value,
                          ![r].value = Undefined,
                          ![r].pos = @ + 1, ![r].phase = "idle", ![r].attempts = 0]
    /\ UNCHANGED <<messages, connState, inbox, turn, nturns, nruns, bucket, delivered, upload, vectorDb>>

\* return { status: "complete", url: targetUrl }
RunReturn(r) ==
    /\ Running(r)
    /\ run[r].pos = NSteps + 1
    /\ run' = [run EXCEPT ![r].status = "done"]
    /\ UNCHANGED <<messages, connState, inbox, turn, nturns, nruns, bucket, delivered, upload, vectorDb>>

\* the engine's process restarts: run is entered again with the step log it has
RunRestart(r) ==
    /\ Running(r)
    /\ run[r].crashes < MaxCrashes
    /\ run' = [run EXCEPT ![r].pos = 1, ![r].phase = "idle", ![r].attempts = 0,
                          ![r].crashes = @ + 1, ![r].entryLog = Logged(r),
                          ![r].bodies = <<0, 0, 0, 0>>,
                          ![r].mem = NoLocals, ![r].value = Undefined]
    /\ UNCHANGED <<messages, connState, inbox, turn, nturns, nruns, bucket, delivered, upload, vectorDb>>

\* ----------------------------------------------------------- /api/upload
Min(a, b) == IF a < b THEN a ELSE b
Max(a, b) == IF a < b THEN b ELSE a

\* String.prototype.substring(start, end): both ends are clamped to
\* 0..length and swapped when start > end
Substring(text, start, end) ==
    LET lo == Max(0, Min(Len(text), Min(start, end)))
        hi == Max(0, Min(Len(text), Max(start, end)))
    IN  SubSeq(text, lo + 1, hi)

\* faulty variant: the loop stops one character early
LoopTestShort(i, text) == i < Len(text) - 1

\* i < markdownContent.length
LoopTest(i, text) == i < Len(text)

\* faulty variant: the loop advances by the overlap
AdvanceByOverlap(i, size, overlap) == i + Max(overlap, 1)

\* faulty variant: the windows do not overlap
AdvanceBySize(i, size, overlap) == i + size

\* i += (chunkSize - overlap)
Advance(i, size, overlap) == i + (size - overlap)

\* if (markdownContent && markdownContent.length > 0): chunks = [], i = 0
ChunkGuard ==
    /\ upload.pc = "guard"
    /\ upload' = [upload EXCEPT !.pc = IF Len(upload.text) > 0 THEN "loop" ELSE "done",
                                !.i = 0, !.chunks = <<>>, !.starts = <<>>]
    /\ UNCHANGED <<messages, connState, inbox, turn, nturns, run, nruns, bucket, delivered, vectorDb>>

\* the loop is followed for at most this many iterations
WindowCap == MaxChunks + MaxLen

\* one iteration: chunks.push(markdownContent.substring(i, i + chunkSize))
ChunkLoop ==
    /\ upload.pc = "loop"
    /\ LoopTest(upload.i, upload.text)
    /\ Len(upload.chunks) < WindowCap
    /\ upload' = [upload EXCEPT
                     !.chunks = Append(@, Substring(upload.text, upload.i,
                                                    upload.i + upload.size)),
                     !.starts = Append(@, upload.i),
                     !.i = Advance(upload.i, upload.size, upload.overlap)]
    /\ UNCHANGED <<messages, connState, inbox, turn, nturns, run, nruns, bucket, delivered, vectorDb>>

\* the loop test fails: the chunks are complete
ChunkExit ==
    /\ upload.pc = "loop"
    /\ ~LoopTest(upload.i, upload.text)
    /\ upload' = [upload EXCEPT !.pc = "done"]
    /\ UNCHANGED <<messages, connState, inbox, turn, nturns, run, nruns, bucket, delivered, vectorDb>>

\* `${file.name}-chunk-${i}`
ChunkId(name, i) == <<name, "-chunk-", i>>

\* faulty variant: every chunk is embedded
AllChunks(chunks) == Len(chunks)

\* const maxChunks = Math.min(chunks.length, 50)
MaxChunksOf(chunks) == Min(Len(chunks), MaxChunks)

\* faulty variant: the entries of the file are purged before the new ones go in
UpsertPurging(db, vectors) ==
    {x \in db : \A k \in 1..Len(vectors) : x.id[1] # vectors[k].id[1]}
        \cup {vectors[k] : k \in 1..Len(vectors)}

\* VECTOR_DB.upsert(vectors): an entry with the id of a vector is replaced
Upsert(db, vectors) ==
    {x \in db : \A k \in 1..Len(vectors) : x.id # vectors[k].id}
        \cup {vectors[k] : k \in 1..Len(vectors)}

\* catch (err): Response.json({ success: false, error }, { status: 500 })
ErrorResponse == [status |-> 500, success |-> FALSE, chunksIndexed |-> 0]

\* `const vectors` is declared in the block of the if of line 43, and line 85
\* is outside that block: there the name resolves to nothing
VectorsInScope == FALSE

\* Response.json({ success: true, ..., chunksIndexed: vectors.length })
SuccessResponse(vectors) ==
    [status |-> 200, success |-> TRUE, chunksIndexed |-> Len(vectors)]

\* the handler leaves through its catch block
Rejects(op, k) ==
    [upload EXCEPT !.pc = "responded", !.response = ErrorResponse,
                   !.failedAt = [op |-> op, k |-> k]]

\* the return statement: evaluating vectors.length throws a ReferenceError,
\* which the catch block of the handler turns into the error response
Responds(vectors) ==
    IF VectorsInScope
    THEN [upload EXCEPT !.pc = "responded", !.response = SuccessResponse(vectors)]
    ELSE Rejects("respond", 0)

\* a POST to /api/upload with a file, when no other upload is in progress
UploadStart ==
    /\ upload.pc \in {"idle", "responded"}
    /\ upload.gen < MaxUploads
    /\ \E name \in UploadNames, len \in UploadLens :
          upload' = [NoUpload EXCEPT !.pc = "put", !.name = name, !.doc = TextOfLen(len),
                                     !.size = UploadSize, !.overlap = UploadOverlap,
                                     !.gen = upload.gen + 1, !.past = upload.past]
    /\ UNCHANGED <<messages, connState, inbox, turn, nturns, run, nruns, bucket, delivered,
                   vectorDb>>

\* if (!file) return new Response("No file uploaded", { status: 400 })
UploadNoFile ==
    /\ upload.pc \in {"idle", "responded"}
    /\ upload.gen < MaxUploads
    /\ upload' = [NoUpload EXCEPT !.pc = "responded", !.gen = upload.gen + 1,
                                  !.past = upload.past,
                                  !.response = [NoResponse EXCEPT !.status = 400]]
    /\ UNCHANGED <<messages, connState, inbox, turn, nturns, run, nruns, bucket, delivered,
                   vectorDb>>

\* faulty variant: the file is not stored ahead of conversion and indexing
UploadPutLater ==
    /\ upload.pc = "put"
    /\ \E ok \in BOOLEAN :
          IF ok
          THEN /\ bucket' = bucket
               /\ upload' = [upload EXCEPT !.pc = "convert"]
          ELSE /\ upload' = Rejects("put", 0)
               /\ UNCHANGED bucket
    /\ UNCHANGED <<messages, connState, inbox, turn, nturns, run, nruns, delivered, vectorDb>>

\* await env.FILES_BUCKET.put(file.name, file.stream(), ...)
UploadPut ==
    /\ upload.pc = "put"
    /\ \E ok \in BOOLEAN :
          IF ok
          THEN /\ bucket' = bucket \cup {upload.name}
               /\ upload' = [upload EXCEPT !.pc = "convert"]
          ELSE /\ upload' = Rejects("put", 0)
               /\ UNCHANGED bucket
    /\ UNCHANGED <<messages, connState, inbox, turn, nturns, run, nruns, delivered, vectorDb>>

\* await file.text() or await env.AI.toMarkdown(file)
UploadConvert ==
    /\ upload.pc = "convert"
    /\ \E ok \in BOOLEAN :
          upload' = IF ok THEN [upload EXCEPT !.pc = "guard", !.text = upload.doc]
                          ELSE Rejects("convert", 0)
    /\ UNCHANGED <<messages, connState, inbox, turn, nturns, run, nruns, bucket, delivered,
                   vectorDb>>

\* faulty variant: every vector is upserted as soon as it is embedded
EmbedChunkUpsertsEach ==
    /\ upload.pc = "done"
    /\ upload.e < MaxChunksOf(upload.chunks)
    /\ \E ok \in BOOLEAN :
          IF ok
          THEN LET v == [id |-> ChunkId(upload.name, upload.e),
                         text |-> upload.chunks[upload.e + 1], gen |-> upload.gen]
               IN  /\ upload' = [upload EXCEPT !.vectors = Append(@, v), !.e = @ + 1]
                   /\ vectorDb' = Upsert(vectorDb, <<v>>)
          ELSE /\ upload' = Rejects("embed", upload.e)
               /\ UNCHANGED vectorDb
    /\ UNCHANGED <<messages, connState, inbox, turn, nturns, run, nruns, bucket, delivered>>

\* one iteration of the embedding loop: await env.AI.run(bge-base ...), push
EmbedChunk ==
    /\ upload.pc = "done"
    /\ upload.e < MaxChunksOf(upload.chunks)
    /\ \E ok \in BOOLEAN :
          upload' = IF ok
                    THEN [upload EXCEPT
                            !.vectors = Append(@, [id |-> ChunkId(upload.name, upload.e),
                                                   text |-> upload.chunks[upload.e + 1],
                                                   gen |-> upload.gen]),
                            !.e = @ + 1]
                    ELSE Rejects("embed", upload.e)
    /\ UNCHANGED <<messages, connState, inbox, turn, nturns, run, nruns, bucket, delivered,
                   vectorDb>>

\* faulty variant: the vectors are upserted one by one, and a failure leaves the
\* first of them written
UploadUpsertOneByOne ==
    /\ upload.pc = "done"
    /\ upload.e = MaxChunksOf(upload.chunks)
    /\ Len(upload.vectors) > 0
    /\ \E ok \in BOOLEAN :
          IF ok
          THEN /\ vectorDb' = Upsert(vectorDb, upload.vectors)
               /\ upload' = [Responds(upload.vectors) EXCEPT
                               !.batch = upload.vectors,
                               !.past = Append(@, [name |-> upload.name,
                                                   n |-> Len(upload.vectors),
                                                   gen |-> upload.gen])]
          ELSE /\ upload' = Rejects("upsert", 0)
               /\ vectorDb' = Upsert(vectorDb, <<upload.vectors[1]>>)
    /\ UNCHANGED <<messages, connState, inbox, turn, nturns, run, nruns, bucket, delivered>>

\* if (vectors.length > 0) await VECTOR_DB.upsert(vectors); then the response
UploadUpsert ==
    /\ upload.pc = "done"
    /\ upload.e = MaxChunksOf(upload.chunks)
    /\ Len(upload.vectors) > 0
    /\ \E ok \in BOOLEAN :
          IF ok
          THEN /\ vectorDb' = Upsert(vectorDb, upload.vectors)
               /\ upload' = [Responds(upload.vectors) EXCEPT
                               !.batch = upload.vectors,
                               !.past = Append(@, [name |-> upload.name,
                                                   n |-> Len(upload.vectors),
                                                   gen |-> upload.gen])]
          ELSE /\ upload' = Rejects("upsert", 0)
               /\ UNCHANGED vectorDb
    /\ UNCHANGED <<messages, connState, inbox, turn, nturns, run, nruns, bucket, delivered>>

\* nothing to index: the response follows the conversion at once
UploadRespond ==
    /\ upload.pc = "done"
    /\ upload.e = MaxChunksOf(upload.chunks)
    /\ Len(upload.vectors) = 0
    /\ upload' = Responds(upload.vectors)
    /\ UNCHANGED <<messages, connState, inbox, turn, nturns, run, nruns, bucket, delivered,
                   vectorDb>>

\* ---------------------------------------------------------- specification
ChatStep(t) ==
    \/ Embed(t)
    \/ Query(t)
    \/ Invoke(t)
    \/ StreamRaise(t)
    \/ Finish(t)

TurnStep(t) ==
    \/ ChatStep(t)
    \/ EmitStatus(t)
    \/ ToolExec(t)
    \/ NextPass(t)

RunStep(r, urls) ==
    \/ StepSkip(r)
    \/ StepBody(r, urls)
    \/ SaveReport(r)
    \/ Notify(r)
    \/ StepCommit(r)
    \/ RunReturn(r)
    \/ RunRestart(r)

\* the session actors: prompts arriving on any connection while turns are suspended
Next ==
    \/ \E c \in Conns : OnConnect(c)
    \/ \E c \in Closing : OnClose(c)
    \/ \E c \in Conns : OnMessage(c, MaxTurns)
    \/ \E t \in TurnIds : TurnStep(t)
    \/ \E t \in TurnIds : TextDelta(t, MaxDeltas)
    \/ \E t \in TurnIds, tool \in ConcTools : ToolCall(t, tool, 1)

Spec == Init /\ [][Next]_vars

\* prompts on one connection, a model that calls no tool
NextChat ==
    \/ OnConnect("c1")
    \/ OnClose("c1")
    \/ OnMessage("c1", MaxTurns)
    \/ \E t \in TurnIds : ChatStep(t)
    \/ \E t \in TurnIds : TextDelta(t, MaxDeltas)

SpecChat == Init /\ [][NextChat]_vars

\* one prompt, a model that may call any capability
NextTools ==
    \/ OnConnect("c1")
    \/ OnMessage("c1", 1)
    \/ TurnStep(1)
    \/ TextDelta(1, MaxDeltas)
    \/ \E tool \in Tools : ToolCall(1, tool, MaxToolReq)

SpecTools == Init /\ [][NextTools]_vars

\* one prompt, a model that may call a tool on every pass
NextLoop ==
    \/ OnConnect("c1")
    \/ OnClose("c1")
    \/ OnMessage("c1", 1)
    \/ TurnStep(1)
    \/ TextDelta(1, LoopDeltas)
    \/ \E tool \in LoopTools : ToolCall(1, tool, MaxSteps + 1)

SpecLoop == Init /\ [][NextLoop]_vars

\* a prompt that starts a research run, and the run
NextRun ==
    \/ \E c \in Conns : OnConnect(c)
    \/ \E c \in Closing : OnClose(c)
    \/ OnMessage("c1", 1)
    \/ TurnStep(1)
    \/ ToolCall(1, "start_deep_research", 1)
    \/ \E r \in RunIds : RunStep(r, OneUrl)

SpecRun == Init /\ [][NextRun]_vars

\* the engine keeps scheduling a run that can take a step; restarts are not owed
RunProgress(r) ==
    \/ StepSkip(r)
    \/ StepBody(r, Urls)
    \/ SaveReport(r)
    \/ Notify(r)
    \/ StepCommit(r)
    \/ RunReturn(r)

\* a run started from the only connection, which may close at any point
NextLive ==
    \/ OnConnect("c1")
    \/ OnClose("c1")
    \/ OnMessage("c1", 1)
    \/ TurnStep(1)
    \/ ToolCall(1, "start_deep_research", 1)
    \/ \E r \in RunIds : RunStep(r, Urls)

SpecLive == Init /\ [][NextLive]_vars /\ \A r \in RunIds : WF_vars(RunProgress(r))

\* a run that the engine never restarts
RunOnce(r) ==
    \/ StepBody(r, OneUrl)
    \/ SaveReport(r)
    \/ Notify(r)
    \/ StepCommit(r)
    \/ RunReturn(r)

\* two sessions: a prompt that may start a research run and a plain prompt,
\* their steps and the steps of the run in any order
NextPair ==
    \/ OnConnect("c1")
    \/ OnConnect("c3")
    \/ OnMessage("c1", 1)
    \/ OnMessage("c3", 2)
    \/ TurnStep(1)
    \/ ToolCall(1, "start_deep_research", 1)
    \/ ChatStep(2)
    \/ \E r \in RunIds : RunOnce(r)

SpecPair == Init /\ [][NextPair]_vars

\* prompts on a connection that stays open; an invocation of onMessage that
\* can take a step is not suspended for ever
NextAnswer ==
    \/ OnConnect("c1")
    \/ OnMessage("c1", MaxTurns)
    \/ \E t \in TurnIds : ChatStep(t)
    \/ \E t \in TurnIds : TextDelta(t, MaxDeltas)

SpecAnswer == Init /\ [][NextAnswer]_vars /\ \A t \in TurnIds : WF_vars(ChatStep(t))

\* two connections of one session, a prompt on each, the model free to stream
\* text and to call a tool
NextShared ==
    \/ OnConnect("c1")
    \/ OnConnect("c2")
    \/ OnMessage("c1", 1)
    \/ OnMessage("c2", 2)
    \/ \E t \in TurnIds : TurnStep(t)
    \/ \E t \in TurnIds : TextDelta(t, MaxDeltas)
    \/ \E t \in TurnIds : ToolCall(t, "web_search", 1)

SpecShared == Init /\ [][NextShared]_vars

\* the chunking loop of the upload handler on a text and a window it is given
InitChunk ==
    /\ messages = [s \in Sessions |-> <<>>]
    /\ connState = [c \in Conns |-> "new"]
    /\ inbox = [c \in Conns |-> <<>>]
    /\ turn = [t \in TurnIds |-> NoTurn]
    /\ nturns = 0
    /\ run = [r \in RunIds |-> NoRun]
    /\ nruns = 0
    /\ bucket = {ScanPdf, NotesTxt}
    /\ delivered = {}
    /\ \E text \in Texts, p \in ChunkParams :
          upload = [NoUpload EXCEPT !.pc = "guard", !.text = text,
                                    !.size = p[1], !.overlap = p[2]]
    /\ vectorDb = {}

NextChunk ==
    \/ ChunkGuard
    \/ ChunkLoop
    \/ ChunkExit

SpecChunk == InitChunk /\ [][NextChunk]_vars

\* uploads to /api/upload, one after another
NextUpload ==
    \/ UploadStart
    \/ UploadNoFile
    \/ UploadPut
    \/ UploadConvert
    \/ NextChunk
    \/ EmbedChunk
    \/ UploadUpsert
    \/ UploadRespond

SpecUpload == Init /\ [][NextUpload]_vars

\* the chunking loop with a size and an overlap outside 0 <= overlap < size
InitConfig ==
    /\ messages = [s \in Sessions |-> <<>>]
    /\ connState = [c \in Conns |-> "new"]
    /\ inbox = [c \in Conns |-> <<>>]
    /\ turn = [t \in TurnIds |-> NoTurn]
    /\ nturns = 0
    /\ run = [r \in RunIds |-> NoRun]
    /\ nruns = 0
    /\ bucket = {ScanPdf, NotesTxt}
    /\ delivered = {}
    /\ \E text \in Texts, p \in BadParams :
          upload = [NoUpload EXCEPT !.pc = "guard", !.text = text,
                                    !.size = p[1], !.overlap = p[2]]
    /\ vectorDb = {}

SpecConfig == InitConfig /\ [][NextChunk]_vars

\* ------------------------------------------------------------------ claims
Terminal(e) == e.type \in {"stop", "error"}
EventsOfTurn(c, t) == SelectSeq(inbox[c], LAMBDA e : e.turn = t)
EventsOfDelivery(c, r, n) == SelectSeq(inbox[c], LAMBDA e : e.run = r /\ e.frag = n)
Started(t) == turn[t].pc # "none"
Audience(d) == {c \in d.open : SessionOf(c) = run[d.run].origin}

\* C1: in every session at most one invocation of onMessage is between its
\* push of the user message and its stop/error.
C1_OneTurnPerSession ==
    \A s \in Sessions : Cardinality(ActiveTurns(s)) <= 1

\* C2: on every connection, an event of a later turn is preceded by the
\* stop/error of every earlier turn of that connection.
C2_TurnsNotInterleaved ==
    \A c \in Conns : \A a \in TurnIds : \A b \in TurnIds :
        (a < b /\ Started(a) /\ Started(b) /\ turn[a].conn = c /\ turn[b].conn = c) =>
            \A j \in 1..Len(inbox[c]) :
                inbox[c][j].turn = b =>
                    \E k \in 1..(j - 1) : inbox[c][k].turn = a /\ Terminal(inbox[c][k])

\* C3: in a re-entry of run, the body of a step that had a record in the step
\* log at entry is invoked zero times; a re-entry that returns has run the
\* body of every step that had none.
C3_LoggedStepsNotReExecuted ==
    \A r \in RunIds : \A i \in 1..NSteps :
        /\ StepNames[i] \in run[r].entryLog => run[r].bodies[i] = 0
        /\ (run[r].status = "done" /\ StepNames[i] \notin run[r].entryLog)
               => run[r].bodies[i] >= 1

C3_Witness ==
    \E r \in RunIds :
        /\ run[r].status = "done"
        /\ run[r].entryLog = {"plan-research", "scrape-convert"}
        /\ run[r].bodies[1] = 0 /\ run[r].bodies[2] = 0
        /\ run[r].bodies[3] = 1 /\ run[r].bodies[4] = 1

\* C4: whatever fails inside a capability handler, the handler's result is a
\* text and the turn does not end with an error event because of it.
C4_HandlerFailureIsText ==
    \A t \in TurnIds :
        /\ (turn[t].pc = "tool" /\ turn[t].toolDone) => turn[t].result.kind = "text"
        /\ turn[t].raised # "tool"

\* C5: a turn whose embedding call or vector query failed is not ended by
\* that failure: if it has ended, the model was invoked and it ended with stop.
C5_RetrievalFailureDegrades ==
    \A t \in TurnIds :
        turn[t].pc = "done" => turn[t].raised \notin {"embed", "query"}

\* C6: a turn ended by an error of streamText or of its stream has sent exactly
\* one error event, its last event, to its connection (none arrives once the
\* connection is closed) and no stop event, has no assistant message in the
\* history, and is no longer active.
C6_ModelErrorAbortsTurn ==
    \A t \in TurnIds :
        turn[t].raised \in {"invoke", "stream"} =>
            LET c == turn[t].conn
                ev == EventsOfTurn(c, t)
                errors == SelectSeq(ev, LAMBDA e : e.type = "error")
            IN  /\ ~Active(t)
                /\ Len(errors) <= 1
                /\ connState[c] = "open" => Len(errors) = 1 /\ ev[Len(ev)].type = "error"
                /\ \A x \in Conns : \A i \in 1..Len(inbox[x]) :
                       inbox[x][i].turn = t => inbox[x][i].type # "stop"
                /\ \A i \in 1..Len(messages[TurnSession(t)]) :
                       LET m == messages[TurnSession(t)][i]
                       IN  m.turn = t => m.role = "user"
                /\ Len(SelectSeq(messages[TurnSession(t)], LAMBDA m : m.turn = t)) = 1

\* a stream error after a text fragment, then a prompt that found the session
\* idle and was answered
C6_Witness ==
    \E a \in TurnIds : \E b \in TurnIds :
        /\ a < b
        /\ turn[a].raised = "stream" /\ Len(turn[a].full) > 0
        /\ connState[turn[a].conn] = "open"
        /\ turn[b].conn = turn[a].conn
        /\ turn[b].busy = 0
        /\ turn[b].outcome = "stop"

\* C7: a turn makes at most 5 passes; after the tool call of the fifth pass
\* the stream is over, and the turn ends with stop and the text it has.
C7_AtMostFiveRoundTrips ==
    \A t \in TurnIds :
        /\ turn[t].steps <= MaxSteps
        /\ turn[t].calls <= MaxSteps
        /\ turn[t].calls = MaxSteps => turn[t].pc \in {"tool", "closing", "done"}
        /\ (turn[t].calls = MaxSteps /\ turn[t].pc = "done" /\ turn[t].raised = "") =>
               /\ turn[t].outcome = "stop"
               /\ \E i \in 1..Len(messages[TurnSession(t)]) :
                      messages[TurnSession(t)][i] = AssistantMessage(t, turn[t].full)

C7_Witness ==
    \E t \in TurnIds :
        /\ turn[t].calls = MaxSteps
        /\ turn[t].steps = MaxSteps
        /\ turn[t].outcome = "stop"
        /\ Len(turn[t].full) > 0
        /\ inbox[turn[t].conn][Len(inbox[turn[t].conn])].type = "stop"

\* C8: the start-research handler returns an acknowledgement naming the run
\* it has just enqueued and does nothing else: the new run has executed no
\* step, no other run, connection or object changes; and a turn whose stream
\* is open can end whatever the state of the run.
StartReturns(t) ==
    /\ turn[t].pc = "tool"
    /\ turn[t].tool = "start_deep_research"
    /\ ~turn[t].toolDone
    /\ turn'[t].toolDone
    /\ turn'[t].result.kind = "text"

C8_StartOnlyEnqueues ==
    /\ [](\A t \in TurnIds : turn[t].pc \in {"stream", "closing"} => ENABLED Finish(t))
    /\ [][\A t \in TurnIds : StartReturns(t) =>
            /\ nruns' = nruns + 1
            /\ turn'[t].result = Ack(nruns')
            /\ run'[nruns'] = [NoRun EXCEPT !.status = "running",
                                            !.agentId = IdToString(TurnSession(t)),
                                            !.connectionId = turn[t].conn,
                                            !.origin = TurnSession(t)]
            /\ \A r \in RunIds \ {nruns'} : run'[r] = run[r]
            /\ inbox' = inbox
            /\ bucket' = bucket
            /\ delivered' = delivered]_vars

\* the turn has stopped and the run it started has not entered its first step
C8_Witness ==
    \E t \in TurnIds :
        /\ turn[t].outcome = "stop"
        /\ turn[t].calls = 1
        /\ \E i \in 1..Len(inbox[turn[t].conn]) :
               inbox[turn[t].conn][i] = TurnEvent("status", t, "start_deep_research", 0)
        /\ nruns = 1
        /\ run[1].status = "running"
        /\ run[1].log = <<>>
        /\ run[1].bodies = <<0, 0, 0, 0>>
        /\ run[1].crashes = 0

\* C9: each notification of a run is received, as a text event directly
\* followed by a stop event, by exactly the connections that were attached
\* to the run's originating session when it was delivered.
C9_NotificationToOriginSession ==
    \A d \in delivered : \A c \in Conns :
        LET got == EventsOfDelivery(c, d.run, d.n)
        IN  IF c \in Audience(d)
            THEN /\ got = <<RunEvent("text", d.run, d.n), RunEvent("stop", d.run, d.n)>>
                 /\ \E i \in 1..(Len(inbox[c]) - 1) :
                        /\ inbox[c][i] = RunEvent("text", d.run, d.n)
                        /\ inbox[c][i + 1] = RunEvent("stop", d.run, d.n)
            ELSE got = <<>>

\* two connections of the originating session and one of another session
\* were attached
C9_Witness ==
    \E d \in delivered :
        /\ d.open = {"c1", "c2", "c3"}
        /\ Audience(d) = {"c1", "c2"}
        /\ Len(EventsOfDelivery("c1", d.run, d.n)) = 2
        /\ Len(EventsOfDelivery("c2", d.run, d.n)) = 2
        /\ Len(EventsOfDelivery("c3", d.run, d.n)) = 0

RunEventsIn(c, r) == SelectSeq(inbox[c], LAMBDA e : e.run = r)
DeliveriesOf(r) == {d \in delivered : d.run = r}

\* an attempt of the current step of r ends in failure in this step of the system
AttemptFails(r) ==
    /\ run[r].status = "running"
    /\ run'[r].crashes = run[r].crashes
    /\ run'[r].phase = "idle"
    /\ \/ run[r].phase = "saved"
       \/ run[r].phase = "idle" /\ run'[r].bodies # run[r].bodies

\* a failed attempt is retried on the same step, and at the ceiling fails the run
RetrySameStep(r) ==
    AttemptFails(r) =>
        /\ run'[r].pos = run[r].pos
        /\ run'[r].log = run[r].log
        /\ \A c \in Conns : RunEventsIn(c, r)' = RunEventsIn(c, r)
        /\ IF run[r].attempts < RetryLimit
           THEN run'[r].status = "running" /\ run'[r].attempts = run[r].attempts + 1
           ELSE run'[r].status = "failed"

\* a failed run executes nothing and sends nothing any more
FailedIsFinal(r) ==
    run[r].status = "failed" =>
        /\ run'[r] = run[r]
        /\ DeliveriesOf(r)' = DeliveriesOf(r)
        /\ \A c \in Conns : RunEventsIn(c, r)' = RunEventsIn(c, r)

\* C11 as stated: a failed step is retried in place; at the retry ceiling the
\* run is failed, runs no further body, and no connection has been sent a
\* notification of that run.
C11_FailedRunSentNothing ==
    /\ [](\A r \in RunIds : run[r].status = "failed" =>
              run[r].sends = 0 /\ \A c \in Conns : RunEventsIn(c, r) = <<>>)
    /\ [][\A r \in RunIds : RetrySameStep(r) /\ FailedIsFinal(r)]_vars

\* C11, amended: a failed step is retried in place; at the retry ceiling the
\* run is failed and from then on runs no body and sends no notification; a
\* run that failed in one of the first three steps has sent none at all, and
\* a failed run that has sent one failed in save-and-notify after a restart.
C11_FailureStopsTheRun ==
    /\ [](\A r \in RunIds : run[r].status = "failed" =>
              /\ run[r].attempts = RetryLimit
              /\ run[r].pos < NSteps =>
                    run[r].sends = 0 /\ \A c \in Conns : RunEventsIn(c, r) = <<>>
              /\ run[r].sends > 0 => run[r].pos = NSteps /\ run[r].crashes > 0)
    /\ [][\A r \in RunIds : RetrySameStep(r) /\ FailedIsFinal(r)]_vars

C11_Witness ==
    \E r \in RunIds :
        /\ run[r].status = "failed"
        /\ run[r].attempts = RetryLimit
        /\ run[r].pos = 3
        /\ Len(run[r].log) = 2

\* C12: every started run eventually is done or failed, whatever happens to
\* the connections: closing the connection that asked, or every connection,
\* neither stops the run nor keeps it from its remaining steps.
C12_RunsTerminate ==
    \A r \in RunIds :
        (run[r].status = "running") ~> (run[r].status \in {"done", "failed"})

C12_Witness ==
    \E r \in RunIds :
        /\ run[r].status = "done"
        /\ connState[run[r].connectionId] = "closed"
        /\ \E d \in DeliveriesOf(r) : Audience(d) = {}

\* C13: the step log of a run holds at most one record per step name, the
\* recorded names are a prefix of plan, scrape/convert, synthesize,
\* save-and-notify, and a body has executed only if every earlier step had a
\* record.
C13_LogIsPrefix ==
    \A r \in RunIds :
        /\ Len(run[r].log) <= NSteps
        /\ run[r].log = SubSeq(StepNames, 1, Len(run[r].log))
        /\ \A i \in 1..Len(run[r].log) : \A j \in 1..Len(run[r].log) :
              run[r].log[i] = run[r].log[j] => i = j
        /\ \A k \in 1..NSteps : run[r].bodies[k] > 0 => Len(run[r].log) >= k - 1
        /\ run[r].phase # "idle" => Len(run[r].log) = run[r].pos - 1

C13_Witness ==
    \E r \in RunIds :
        /\ run[r].crashes > 0
        /\ run[r].entryLog # {}
        /\ Len(run[r].log) = NSteps
        /\ run[r].bodies[NSteps] > 0

ReportsOf(r) == {n \in 1..run[r].puts : ReportName(r, n) \in bucket}
NotificationsIn(c, r) == SelectSeq(inbox[c], LAMBDA e : e.run = r /\ e.type = "text")

\* C14: save-and-notify is safe under at-least-once execution: once its body
\* has completed, however often the step is executed again, the object store
\* holds one report of the run and no connection has been sent a second
\* notification of it.
C14_FinalStepIdempotent ==
    \A r \in RunIds :
        run[r].sends >= 1 =>
            /\ Cardinality(ReportsOf(r)) = 1
            /\ \A c \in Conns : Len(NotificationsIn(c, r)) <= 1

\* C15: a step is fed with the results stored in the log for the earlier
\* steps, also after the run was interrupted and entered again: the locals of
\* run() equal the stored results, scrape/convert works on the URL recorded by
\* plan, synthesize on the recorded material, and every notification cites the
\* recorded URL and the recorded report, so it is the one an uninterrupted run
\* with these step results sends.
C15_ResumedRunUsesStoredResults ==
    \A r \in RunIds :
        /\ Len(run[r].results) = Len(run[r].log)
        /\ \A k \in 1..NSteps :
              run[r].mem[k] # Undefined =>
                  k <= Len(run[r].results) /\ run[r].mem[k] = run[r].results[k]
        /\ run[r].pos <= NSteps => \A k \in 1..(run[r].pos - 1) : k < NSteps =>
                  run[r].mem[k] # Undefined
        /\ Len(run[r].results) >= 2 => run[r].results[2] = <<"md", run[r].results[1]>>
        /\ Len(run[r].results) >= 3 => run[r].results[3] = <<"report", run[r].results[2]>>
        /\ \A d \in DeliveriesOf(r) :
              /\ Len(run[r].results) >= 3
              /\ d.source = run[r].results[1]
              /\ d.summary = <<"report", <<"md", d.source>>>>

C15_Witness ==
    \E r \in RunIds :
        /\ run[r].status = "done"
        /\ run[r].crashes > 0
        /\ Cardinality(run[r].entryLog) = 2
        /\ DeliveriesOf(r) # {}

MessagesOfTurn(t) == SelectSeq(messages[TurnSession(t)], LAMBDA m : m.turn = t)

\* C16: a turn that ends with stop has added exactly two entries to the
\* messages of its session, its user message and after it its assistant
\* message, however many tool calls it made; with no other turn in the session
\* the sequence is two entries longer than the turn found it.
C16_StopTurnAddsTwo ==
    \A t \in TurnIds :
        turn[t].outcome = "stop" =>
            /\ Len(MessagesOfTurn(t)) = 2
            /\ MessagesOfTurn(t)[1].role = "user"
            /\ MessagesOfTurn(t)[2].role = "assistant"
            /\ messages[TurnSession(t)][turn[t].base + 1] = MessagesOfTurn(t)[1]
            /\ (\A u \in TurnIds \ {t} : ~Started(u) \/ TurnSession(u) # TurnSession(t)) =>
                   /\ Len(messages[TurnSession(t)]) = turn[t].base + 2
                   /\ messages[TurnSession(t)][turn[t].base + 2].role = "assistant"

C16_Witness ==
    \E t \in TurnIds :
        /\ turn[t].outcome = "stop"
        /\ turn[t].calls >= 2
        /\ Len(messages[TurnSession(t)]) = turn[t].base + 2

TextsOfTurn(c, t) == SelectSeq(inbox[c], LAMBDA e : e.turn = t /\ e.type = "text")
Fragments(evs) == [i \in 1..Len(evs) |-> evs[i].frag]
ReplyOf(t) == MessagesOfTurn(t)[Len(MessagesOfTurn(t))].content

\* C17: in a turn that ends with stop the content of the assistant message is
\* the concatenation, in the order of emission, of the text events sent to the
\* connection during the turn, and stop comes after the last of them; a
\* connection that closed during the turn holds a prefix of them.
C17_ReplyIsWhatWasStreamed ==
    \A t \in TurnIds :
        turn[t].outcome = "stop" =>
            LET c == turn[t].conn
                got == Fragments(TextsOfTurn(c, t))
                ev == EventsOfTurn(c, t)
            IN  /\ Len(got) <= Len(ReplyOf(t))
                /\ got = SubSeq(ReplyOf(t), 1, Len(got))
                /\ connState[c] = "open" =>
                      /\ got = ReplyOf(t)
                      /\ ev[Len(ev)].type = "stop"
                      /\ \A i \in 1..(Len(ev) - 1) : ev[i].type # "stop"

C17_Witness ==
    \E t \in TurnIds :
        /\ turn[t].outcome = "stop"
        /\ connState[turn[t].conn] = "open"
        /\ Len(ReplyOf(t)) = 2
        /\ turn[t].calls >= 1

FragmentsOfPass(frags, p) == SelectSeq(frags, LAMBDA f : f = p)

\* C18 as stated: when a turn runs more than one streaming pass, the
\* assistant message pushed at stop holds the fragments of the final pass
\* only, none of an earlier pass.
C18_ReplyIsFinalPassOnly ==
    \A t \in TurnIds :
        (turn[t].outcome = "stop" /\ turn[t].steps > 1) =>
            \A i \in 1..Len(ReplyOf(t)) : ReplyOf(t)[i] = turn[t].steps

\* C18, amended: when a turn runs more than one streaming pass, the assistant
\* message pushed at stop holds the fragments of every pass, earlier passes
\* first: for each pass, exactly the fragments the connection was sent in it.
C18_ReplyIsEveryPass ==
    \A t \in TurnIds :
        (turn[t].outcome = "stop" /\ turn[t].steps > 1) =>
            /\ \A i \in 1..Len(ReplyOf(t)) : \A j \in i..Len(ReplyOf(t)) :
                  ReplyOf(t)[i] <= ReplyOf(t)[j]
            /\ connState[turn[t].conn] = "open" =>
                  \A p \in 1..turn[t].steps :
                      FragmentsOfPass(ReplyOf(t), p) =
                          FragmentsOfPass(Fragments(TextsOfTurn(turn[t].conn, t)), p)

C18_Witness ==
    \E t \in TurnIds :
        /\ turn[t].outcome = "stop"
        /\ connState[turn[t].conn] = "open"
        /\ turn[t].steps = 2
        /\ ReplyOf(t) = <<1, 2>>

Abcdefghij == TextOfLen(10)
ChunkedAs(text, size, overlap) ==
    /\ upload.pc = "done"
    /\ upload.text = text
    /\ upload.size = size
    /\ upload.overlap = overlap

\* C19 as stated: chunking "abcdefghij" with size 4 and overlap 1 gives
\* exactly the three windows "abcd", "defg", "ghij", starting at 0, 3, 6.
C19_ThreeWindows ==
    ChunkedAs(Abcdefghij, 4, 1) =>
        /\ upload.chunks = << <<"a", "b", "c", "d">>, <<"d", "e", "f", "g">>,
                              <<"g", "h", "i", "j">> >>
        /\ upload.starts = <<0, 3, 6>>

\* C19, amended: chunking "abcdefghij" with size 4 and overlap 1 gives
\* exactly the four windows "abcd", "defg", "ghij", "j", starting at
\* 0, 3, 6, 9: offset 9 is still below the length 10.
C19_FourWindows ==
    ChunkedAs(Abcdefghij, 4, 1) =>
        /\ upload.chunks = << <<"a", "b", "c", "d">>, <<"d", "e", "f", "g">>,
                              <<"g", "h", "i", "j">>, <<"j">> >>
        /\ upload.starts = <<0, 3, 6, 9>>

C19_Witness ==
    /\ ChunkedAs(Abcdefghij, 4, 1)
    /\ Len(upload.chunks) = 4

\* the k-th window of text for a window size and a step
Window(text, size, step, k) ==
    SubSeq(text, (k - 1) * step + 1, Min(Len(text), (k - 1) * step + size))
\* the number of offsets 0, step, 2*step, ... below len
WindowCount(len, step) == (len + step - 1) \div step

\* C20: for every text and every size and overlap with 0 <= overlap < size
\* the chunks are exactly the windows text[i : i+size] for i = 0, step,
\* 2*step, ... while i < len(text), with step = size - overlap; the empty text
\* has no chunk, and the chunks are a function of text, size and overlap.
C20_ChunksAreTheWindows ==
    (upload.pc \in {"loop", "done"} /\ 0 <= upload.overlap /\ upload.overlap < upload.size) =>
        LET step == upload.size - upload.overlap
            n == Len(upload.chunks)
        IN  /\ upload.i = n * step
            /\ n <= WindowCount(Len(upload.text), step)
            /\ upload.chunks = [k \in 1..n |-> Window(upload.text, upload.size, step, k)]
            /\ upload.starts = [k \in 1..n |-> (k - 1) * step]
            /\ \A k \in 1..n : upload.starts[k] < Len(upload.text)
            /\ upload.pc = "done" =>
                  /\ n = WindowCount(Len(upload.text), step)
                  /\ upload.text = <<>> => upload.chunks = <<>>

C20_Witness ==
    /\ upload.pc = "done"
    /\ upload.overlap > 0
    /\ Len(upload.chunks) >= 3
    /\ Len(upload.chunks[Len(upload.chunks)]) < upload.size
    /\ Len(upload.chunks[1]) = upload.size

\* ------------------------------------------------------ C21 .. C30
RECURSIVE Flatten(_)
Flatten(seqs) == IF seqs = <<>> THEN <<>> ELSE Head(seqs) \o Flatten(Tail(seqs))
ValidParams == 0 <= upload.overlap /\ upload.overlap < upload.size
\* the first size-overlap characters of every chunk, one after another
Heads == Flatten([k \in 1..Len(upload.chunks) |->
                    Substring(upload.chunks[k], 0, upload.size - upload.overlap)])

\* C21: for every text and every size and overlap with 0 <= overlap < size,
\* the first size-overlap characters of the chunks, concatenated in order,
\* are the text: during the loop the part of it covered so far, at the end
\* all of it, each character once.
C21_HeadsRebuildText ==
    (upload.pc \in {"loop", "done"} /\ ValidParams) =>
        /\ Heads = SubSeq(upload.text, 1,
                          Min(Len(upload.text),
                              Len(upload.chunks) * (upload.size - upload.overlap)))
        /\ upload.pc = "done" => Heads = upload.text

C21_Witness ==
    /\ upload.pc = "done"
    /\ upload.overlap > 0
    /\ Len(upload.chunks) >= 3
    /\ Len(upload.chunks[Len(upload.chunks)]) < upload.size - upload.overlap
    /\ Heads = upload.text

VectorOf(k) ==
    [id |-> ChunkId(upload.name, k), text |-> upload.chunks[k + 1], gen |-> upload.gen]
EntriesOfUpload == {x \in vectorDb : x.gen = upload.gen}

\* C23: one upload embeds and upserts at most 50 chunks: the vectors are
\* built for the chunks in order, with the id made of the file name and the
\* chunk index, and what is upserted are exactly the first min(n, 50) of
\* them; a document of more chunks loses the rest, and no operation fails
\* for that.
C23_AtMostFiftyChunks ==
    /\ Len(upload.vectors) <= MaxChunks
    /\ Len(upload.vectors) <= Len(upload.chunks)
    /\ upload.vectors = [k \in 1..Len(upload.vectors) |-> VectorOf(k - 1)]
    /\ upload.batch # <<>> =>
          /\ Len(upload.batch) = Min(Len(upload.chunks), MaxChunks)
          /\ upload.batch = [k \in 1..Len(upload.batch) |-> VectorOf(k - 1)]
          /\ EntriesOfUpload = {VectorOf(k) : k \in 0..(Len(upload.batch) - 1)}
          /\ upload.failedAt.op \notin {"put", "convert", "embed", "upsert"}

C23_Witness ==
    /\ Len(upload.chunks) = MaxChunks + 1
    /\ Len(upload.batch) = MaxChunks
    /\ Cardinality(EntriesOfUpload) = MaxChunks
    /\ \A x \in vectorDb : x.id # ChunkId(upload.name, MaxChunks)

\* the upserts made so far that wrote chunk i of the file called name
Wrote(name, i) ==
    {k \in 1..Len(upload.past) : upload.past[k].name = name /\ i < upload.past[k].n}
LastWrite(name, i) ==
    upload.past[CHOOSE k \in Wrote(name, i) : \A j \in Wrote(name, i) : j <= k].gen
\* what the index holds, as (id, upload) pairs
Held == {[id |-> x.id, gen |-> x.gen] : x \in vectorDb}
\* what the upserts made so far leave in an index that replaces by id only
Expected ==
    {[id |-> ChunkId(name, i), gen |-> LastWrite(name, i)] :
        <<name, i>> \in {q \in UploadNames \X (0..(MaxChunks - 1)) : Wrote(q[1], q[2]) # {}}}

\* C24 as stated: when the embedding of chunk k fails, the upload ends with
\* an error response and the chunks 0..k-1 embedded before it are in the
\* index.
C24_EarlierChunksIndexed ==
    upload.failedAt.op = "embed" =>
        /\ upload.response = ErrorResponse
        /\ \A i \in 0..(upload.failedAt.k - 1) : VectorOf(i) \in vectorDb

\* C24, amended: when the embedding of chunk k fails, the upload ends with an
\* error response and none of its chunks is in the index: the k vectors built
\* so far are dropped with the request, and the index holds what the earlier
\* uploads left in it.
C24_NothingIndexedOnFailure ==
    upload.failedAt.op = "embed" =>
        /\ upload.pc = "responded"
        /\ upload.response = ErrorResponse
        /\ Len(upload.vectors) = upload.failedAt.k
        /\ upload.batch = <<>>
        /\ EntriesOfUpload = {}
        /\ Held = Expected

C24_Witness ==
    /\ upload.failedAt.op = "embed"
    /\ upload.failedAt.k >= 2
    /\ upload.response.status = 500
    /\ Len(upload.past) = 1
    /\ vectorDb # {}

\* C25: an upload replaces the entries whose (file name, chunk index) id it
\* produces again and leaves every other entry alone: the index holds, for
\* every id some upload has written, the entry of the last upload that wrote
\* that id, so after n1 chunks and then n2 < n1 chunks of the same name the
\* entries n2..n1-1 of the first upload are still there.
C25_StaleEntriesRemain ==
    /\ Held = Expected
    /\ \A x \in vectorDb : \A y \in vectorDb : x.id = y.id => x = y

C25_Witness ==
    /\ Len(upload.past) = 2
    /\ upload.past[1].name = upload.past[2].name
    /\ upload.past[1].n = 3
    /\ upload.past[2].n = 2
    /\ [id |-> ChunkId(upload.name, 2), gen |-> 1] \in Held
    /\ [id |-> ChunkId(upload.name, 0), gen |-> 2] \in Held
    /\ [id |-> ChunkId(upload.name, 0), gen |-> 1] \notin Held

\* C26: for every tool call of a turn the status event naming the capability
\* has been emitted on the connection when the handler of the capability is
\* dispatched.
C26_StatusBeforeDispatch ==
    \A t \in TurnIds :
        (turn[t].pc = "tool" /\ turn[t].toolDone) => turn[t].statusSent

\* C27: the message history of a session is append-only: no step of a turn,
\* of a failure or of a run notification removes an entry or changes the
\* position, role or content of an entry that is already there.
C27_HistoryAppendOnly ==
    [][\A s \in Sessions :
          /\ Len(messages'[s]) >= Len(messages[s])
          /\ SubSeq(messages'[s], 1, Len(messages[s])) = messages[s]]_vars

C27_Witness ==
    \E s \in Sessions :
        /\ Len(messages[s]) >= 3
        /\ \E t \in TurnIds : TurnSession(t) = s /\ turn[t].outcome = "error"
        /\ \E t \in TurnIds : TurnSession(t) = s /\ turn[t].outcome = "stop"
        /\ \E r \in RunIds : run[r].origin = s /\ run[r].sends > 0

\* the steps of session s: of a turn submitted on one of its connections, of a
\* run started from it, or of one of its connections opening or closing
StepOf(s) ==
    \/ \E t \in TurnIds : turn'[t] # turn[t] /\ SessionOf(turn'[t].conn) = s
    \/ \E r \in RunIds : run'[r] # run[r] /\ run'[r].origin = s
    \/ \E c \in Conns : SessionOf(c) = s /\ connState'[c] # connState[c]

\* session s is touched: its history changes or one of its connections is sent
\* an event
Touched(s) ==
    \/ messages'[s] # messages[s]
    \/ \E c \in Conns : SessionOf(c) = s /\ inbox'[c] # inbox[c]

\* C28: sessions are independent: a step of a turn or of a run notification
\* changes the message history and the connections' event streams of its own
\* session only, whatever the order of the two sessions' steps.
C28_SessionsIndependent ==
    [][\A s \in Sessions : Touched(s) => StepOf(s)]_vars

C28_Witness ==
    /\ \E t \in TurnIds : turn[t].conn = "c1" /\ turn[t].outcome = "stop"
    /\ \E t \in TurnIds : turn[t].conn = "c3" /\ turn[t].outcome = "stop"
    /\ \E r \in RunIds : run[r].origin = "s1" /\ run[r].sends > 0
    /\ Len(messages["s1"]) = 2
    /\ Len(messages["s2"]) = 2
    /\ \E i \in 1..Len(inbox["c1"]) : inbox["c1"][i].run # 0
    /\ \A i \in 1..Len(inbox["c3"]) : inbox["c3"][i].run = 0 /\ inbox["c3"][i].turn \in {0, 2}

\* C29: while a turn is active on a connection, between its first event and
\* its stop or error event, the connection receives the events of that turn
\* only: an event of a run notification that follows an event of a turn in
\* the stream of a connection is preceded by the terminal event of that turn.
C29_NotificationOutsideTurns ==
    \A c \in Conns : \A i \in 1..Len(inbox[c]) : \A j \in (i + 1)..Len(inbox[c]) :
        (inbox[c][i].turn # 0 /\ inbox[c][j].run # 0)
            => \E k \in i..(j - 1) :
                  Terminal(inbox[c][k]) /\ inbox[c][k].turn = inbox[c][i].turn

\* C30: the web-lookup capability never raises: whether the browser launch,
\* the navigation and the text extraction succeed or one of them fails, the
\* handler returns a string, the results or the error text.
C30_WebSearchNeverRaises ==
    \A t \in TurnIds :
        (turn[t].pc = "tool" /\ turn[t].tool = "web_search" /\ turn[t].toolDone)
            => turn[t].result \in {Text("Results"), Text("Search Error")}

C30_Witness ==
    \E t \in TurnIds :
        /\ turn[t].pc = "tool"
        /\ turn[t].tool = "web_search"
        /\ turn[t].toolDone
        /\ turn[t].result = Text("Search Error")

\* ------------------------------------------------------------ C31 .. C38
\* the handler of read_file returns in this step of turn t, the object store
\* having answered that it holds no object of the name asked for
ReadsAbsent(t) ==
    /\ turn[t].pc = "tool"
    /\ turn[t].tool = "read_file"
    /\ ~turn[t].toolDone
    /\ turn'[t].toolDone
    /\ turn'[t].lookup = "absent"

\* C31: read_file called with a name for which the object store holds no
\* object returns the not-found text as its normal result, not an exception,
\* and leaves the object store as it was.
C31_AbsentFileIsText ==
    [][\A t \in TurnIds :
          ReadsAbsent(t) => turn'[t].result = Text("not found") /\ bucket' = bucket]_vars

C31_Witness ==
    \E t \in TurnIds :
        /\ turn[t].tool = "read_file"
        /\ turn[t].toolDone
        /\ turn[t].lookup = "absent"
        /\ turn[t].result = Text("not found")
        /\ bucket = {ScanPdf, NotesTxt}

\* the stop and error events of turn t on the connection that sent its prompt
TerminalsOf(t) == SelectSeq(EventsOfTurn(turn[t].conn, t), Terminal)

\* the terminal event of turn t, if there is one, is the last event of the turn
TerminalIsLast(t) ==
    LET ev == EventsOfTurn(turn[t].conn, t)
    IN  \A i \in 1..Len(ev) : Terminal(ev[i]) => i = Len(ev)

\* C32: every prompt received is eventually answered, on the connection that
\* sent it, by exactly one stop or error event, and no text or status event
\* of the turn follows that event.
C32_PromptsAnswered ==
    /\ \A t \in TurnIds : Started(t) ~> (Len(TerminalsOf(t)) = 1)
    /\ [](\A t \in TurnIds : Started(t) => Len(TerminalsOf(t)) <= 1 /\ TerminalIsLast(t))

\* the entries of a sequence
Entries(seq) == {seq[i] : i \in 1..Len(seq)}

\* streamText has been called for turn u: its model input is fixed
Invoked(u) == turn[u].steps >= 1

\* C33: the user message is in the history from the start of the turn, before
\* retrieval and model invocation, and stays: a turn that ended with an error
\* has added exactly one entry, its user message, and the model input of
\* every later turn of the session holds that message and no reply to it.
C33_ErrorTurnAddsOne ==
    \A t \in TurnIds :
        /\ Started(t) => messages[TurnSession(t)][turn[t].base + 1] = UserMessage(t)
        /\ turn[t].outcome = "error" =>
              /\ MessagesOfTurn(t) = <<UserMessage(t)>>
              /\ (\A u \in TurnIds \ {t} : ~Started(u)) =>
                     Len(messages[TurnSession(t)]) = turn[t].base + 1
              /\ \A u \in TurnIds :
                     (u > t /\ TurnSession(u) = TurnSession(t) /\ Invoked(u)) =>
                         /\ UserMessage(t) \in Entries(turn[u].input)
                         /\ \A m \in Entries(turn[u].input) :
                                m.turn = t => m.role = "user"

C33_Witness ==
    /\ turn[1].outcome = "error"
    /\ turn[2].outcome = "stop"
    /\ turn[2].base = 1
    /\ turn[2].input = <<UserMessage(1), UserMessage(2)>>
    /\ Len(messages["s1"]) = 3

\* broadcastResult is called in this step
Delivers == delivered' # delivered

\* C34: delivering a run notification leaves the message history of every
\* session as it was, and no entry of the model input of a turn comes from a
\* notification: the input holds user and assistant messages of turns only.
C34_NotificationNotInHistory ==
    /\ [][Delivers => messages' = messages]_vars
    /\ [](\A t \in TurnIds : \A m \in Entries(turn[t].input) :
             m.turn \in TurnIds /\ m.role \in {"user", "assistant"})

C34_Witness ==
    \E d \in delivered : \E u \in TurnIds :
        /\ TurnSession(u) = run[d.run].origin
        /\ turn[u].base >= d.seen
        /\ d.seen >= 1
        /\ Invoked(u)
        /\ Len(turn[u].input) = turn[u].base + 1
        /\ SessionOf(turn[u].conn) = "s2"
        /\ "c3" \in d.open

\* the entries an upload of these chunks is to leave in the index
AllEntries == {VectorOf(k) : k \in 0..(MaxChunksOf(upload.chunks) - 1)}

\* C35: indexing of one upload is all-or-nothing: the vectors are collected
\* first and written by one upsert, so the index holds either none of the
\* entries of the upload or all min(n, 50) of them, all of them exactly when
\* the upsert was made, and this also once the upload has finished or failed.
C35_AllOrNothing ==
    /\ EntriesOfUpload = {} \/ EntriesOfUpload = AllEntries
    /\ EntriesOfUpload # {} <=> upload.batch # <<>>
    /\ upload.failedAt.op \in {"put", "convert", "embed", "upsert"} => EntriesOfUpload = {}

C35_Witness ==
    /\ upload.pc = "responded"
    /\ upload.failedAt.op = "upsert"
    /\ Len(upload.vectors) >= 2
    /\ EntriesOfUpload = {}
    /\ Len(upload.past) = 1
    /\ Cardinality(vectorDb) = upload.past[1].n

\* C36: the uploaded file is in the object store, under its name, from before
\* the conversion on, and it stays: when conversion, embedding or upsert
\* fails the request ends with the error response and the store still holds
\* the file.
C36_StoredFileKept ==
    /\ upload.pc \in {"convert", "guard", "loop", "done"} => upload.name \in bucket
    /\ upload.failedAt.op \in {"convert", "embed", "upsert"} =>
          /\ upload.pc = "responded"
          /\ upload.response = ErrorResponse
          /\ upload.name \in bucket

C36_Witness ==
    /\ upload.name = DocTxt
    /\ upload.failedAt.op = "upsert"
    /\ upload.response = ErrorResponse
    /\ DocTxt \in bucket
    /\ EntriesOfUpload = {}

\* one of the operations of the upload was rejected
OperationFailed == upload.failedAt.op \in {"put", "convert", "embed", "upsert"}

\* C37: an upload whose storing, conversion, embeddings and upsert all
\* succeeded is answered with success: true and chunksIndexed = min(n, 50), the
\* number of entries upserted; the error response is given only when one of
\* those operations failed.
C37_SuccessIsReported ==
    (upload.pc = "responded" /\ upload.name # <<>>) =>
        /\ ~OperationFailed =>
              upload.response = [status |-> 200, success |-> TRUE,
                                 chunksIndexed |-> MaxChunksOf(upload.chunks)]
        /\ upload.response = ErrorResponse => OperationFailed

\* the events of turn t in the stream of connection c, by type
TypesOfTurn(c, t) == {e.type : e \in Entries(EventsOfTurn(c, t))}

\* C38: the text, status, stop and error events of a turn are sent to the
\* connection that submitted its prompt and to no other, also not to the other
\* connections of the same session, while the user message of the turn and,
\* after a stop, its assistant message are in the history they all share.
C38_TurnEventsToSender ==
    /\ \A c \in Conns : \A e \in Entries(inbox[c]) :
           e.turn # 0 => turn[e.turn].conn = c
    /\ \A t \in TurnIds :
           /\ Started(t) =>
                 UserMessage(t) \in Entries(messages[SessionOf(turn[t].conn)])
           /\ turn[t].outcome = "stop" =>
                 AssistantMessage(t, turn[t].full)
                     \in Entries(messages[SessionOf(turn[t].conn)])

C38_Witness ==
    /\ turn[1].conn = "c1" /\ turn[1].outcome = "error"
    /\ turn[2].conn = "c2" /\ turn[2].outcome = "stop"
    /\ TypesOfTurn("c2", 2) = {"text", "status", "stop"}
    /\ TypesOfTurn("c1", 2) = {}
    /\ TypesOfTurn("c2", 1) = {}
    /\ "error" \in TypesOfTurn("c1", 1)
    /\ connState["c1"] = "open"
    /\ Len(messages["s1"]) = 3

====
